---- MODULE Spec2Model ----
(***************************************************************************)
(* Model of the NGS barcode clash checker (src/streamlit_app.py): the      *)
(* Hamming distance, the within-set and cross-set clash detectors, the     *)
(* validator, and the three flows of the Streamlit page that call them.    *)
(*                                                                         *)
(* A string is a sequence of one-character strings (<<"A","C">> is "AC");  *)
(* a Python dict is a function whose domain is its set of keys; a Python   *)
(* number is a record that is either an int n or the float inf.            *)
(***************************************************************************)
EXTENDS Integers, Sequences, FiniteSets, TLC

VARIABLES pc, inp, out

vars == <<pc, inp, out>>

(***************************************************************************)
(* Bounds of the model.                                                    *)
(***************************************************************************)
\* longest list handed to check_barcodes_within_set
MaxList == 3
\* longest list handed to check_barcodes_between_sets (each of the two)
MaxSet == 2
\* largest threshold tried (the sidebar allows 0..10)
MaxThreshold == 1
\* longest list handed to validate_barcodes
MaxRaw == 2
\* number of characters of the text pasted in the single-set tab or uploaded
MaxText == 5
\* number of characters of each text pasted in the multi-set tab
MaxSetText == 2

\* bases the model's barcodes are made of, and the barcode lengths it tries
Bases == {"A", "C"}
BarcodeLens == {1, 2}
\* characters of raw strings: a base, a lowercase base, a non-base, a blank
RawChars == {"A", "c", "N", " "}
RawLens == {0, 1, 2, 3}
\* characters of pasted or uploaded text
TextChars == {"A", "a", "C", "N", " ", "\n"}
\* set names typed into the multi-set tab: the defaults, and twice the same name
NamePairs == {<<"Set 1", "Set 2">>, <<"Set 1", "Set 1">>}

Thresholds == 0..MaxThreshold

StringsOver(chars, lens) == UNION {[1..n -> chars] : n \in lens}

SeqsUpTo(S, n) == UNION {[1..k -> S] : k \in 0..n}

Barcodes == StringsOver(Bases, BarcodeLens)

RawStrings == StringsOver(RawChars, RawLens)

Texts(n) == StringsOver(TextChars, 0..n)

Range(s) == {s[i] : i \in 1..Len(s)}

(***************************************************************************)
(* Python numbers: hamming_distance returns an int or float('inf').        *)
(***************************************************************************)
PyInt(n) == [isinf |-> FALSE, n |-> n]

inf == [isinf |-> TRUE, n |-> 0]

\* variant: == in place of <=
LeExact(d, t) == ~d.isinf /\ d.n = t

\* Python's d <= t for d an int or float('inf') and t an int
Le(d, t) == ~d.isinf /\ d.n <= t

(***************************************************************************)
(* hamming_distance(s1, s2)                                                *)
(***************************************************************************)
\* variant: counts the positions that agree
hamming_distance_equal(s1, s2) ==
  IF Len(s1) # Len(s2) THEN inf
  ELSE PyInt(Cardinality({i \in 1..Len(s1) : s1[i] = s2[i]}))

\* variant: no length test, zip() stops at the shorter string
hamming_distance_zip(s1, s2) ==
  LET n == IF Len(s1) < Len(s2) THEN Len(s1) ELSE Len(s2)
  IN  PyInt(Cardinality({i \in 1..n : s1[i] # s2[i]}))

hamming_distance(s1, s2) ==
  IF Len(s1) # Len(s2) THEN inf
  ELSE PyInt(Cardinality({i \in 1..Len(s1) : s1[i] # s2[i]}))

(***************************************************************************)
(* A dict literal {k1: v1, k2: v2, k3: v3}: a later key overwrites an      *)
(* earlier equal one.                                                      *)
(***************************************************************************)
Dict3(k1, v1, k2, v2, k3, v3) ==
  [k \in {k1, k2, k3} |-> IF k = k3 THEN v3 ELSE IF k = k2 THEN v2 ELSE v1]

(***************************************************************************)
(* itertools.combinations(l, 2): the pairs <<l[i], l[j]>>, i < j, in       *)
(* lexicographic order of (i, j).                                          *)
(***************************************************************************)
RECURSIVE CombFrom(_, _, _)
CombFrom(l, i, j) ==
  IF i >= Len(l) THEN <<>>
  ELSE IF j > Len(l) THEN CombFrom(l, i + 1, i + 2)
  ELSE <<<<l[i], l[j]>>>> \o CombFrom(l, i, j + 1)

\* variant: itertools.permutations(l, 2), every pair in both orientations
combinations_both(l) ==
  LET RECURSIVE All(_, _)
      All(i, j) == IF i > Len(l) THEN <<>>
                   ELSE IF j > Len(l) THEN All(i + 1, 1)
                   ELSE (IF i # j THEN <<<<l[i], l[j]>>>> ELSE <<>>) \o All(i, j + 1)
  IN  All(1, 1)

\* variant: zip(l, l[1:]), neighbours only
combinations_adjacent(l) ==
  [k \in 1..(IF Len(l) = 0 THEN 0 ELSE Len(l) - 1) |-> <<l[k], l[k + 1]>>]

combinations(l) == CombFrom(l, 1, 2)

\* the orders in which a set of the elements S may iterate
RECURSIVE ListsOfSet(_)
ListsOfSet(S) ==
  IF S = {} THEN {<<>>}
  ELSE UNION {{<<x>> \o l : l \in ListsOfSet(S \ {x})} : x \in S}

(***************************************************************************)
(* check_barcodes_within_set(barcodes, max_distance); order is the order   *)
(* in which the set iterates, so list(set(barcodes)) is the elements of    *)
(* barcodes as order lists them.                                           *)
(***************************************************************************)
RECURSIVE WithinLoop(_, _)
WithinLoop(pairs, max_distance) ==
  IF pairs = <<>> THEN <<>>
  ELSE LET bc1 == Head(pairs)[1]
           bc2 == Head(pairs)[2]
           distance == hamming_distance(bc1, bc2)
       IN  (IF Le(distance, max_distance)
            THEN <<Dict3("Barcode 1", bc1, "Barcode 2", bc2, "Hamming Distance", distance)>>
            ELSE <<>>) \o WithinLoop(Tail(pairs), max_distance)

\* variant: barcode_list = list(barcodes), duplicates kept
check_barcodes_within_set_nodedup(barcodes, max_distance, order) ==
  [clashes |-> WithinLoop(combinations(barcodes), max_distance),
   barcode_list |-> barcodes]

check_barcodes_within_set(barcodes, max_distance, order) ==
  LET barcode_list == SelectSeq(order, LAMBDA bc : bc \in Range(barcodes))
  IN  [clashes |-> WithinLoop(combinations(barcode_list), max_distance),
       barcode_list |-> barcode_list]

(***************************************************************************)
(* check_barcodes_between_sets(set1, set2, max_distance, set1_name,        *)
(* set2_name)                                                              *)
(***************************************************************************)
BarcodeKey(name) == name \o " Barcode"

RECURSIVE BetweenLoop(_, _, _, _, _, _, _)
BetweenLoop(set1, set2, max_distance, set1_name, set2_name, i, j) ==
  IF i > Len(set1) THEN <<>>
  ELSE IF j > Len(set2)
       THEN BetweenLoop(set1, set2, max_distance, set1_name, set2_name, i + 1, 1)
  ELSE LET bc1 == set1[i]
           bc2 == set2[j]
           distance == hamming_distance(bc1, bc2)
       IN  (IF Le(distance, max_distance)
            THEN <<Dict3(BarcodeKey(set1_name), bc1, BarcodeKey(set2_name), bc2,
                         "Hamming Distance", distance)>>
            ELSE <<>>)
           \o BetweenLoop(set1, set2, max_distance, set1_name, set2_name, i, j + 1)

\* variant: each set deduplicated first
check_barcodes_between_sets_dedup(set1, set2, max_distance, set1_name, set2_name) ==
  LET RECURSIVE Dedup(_)
      Dedup(s) == IF s = <<>> THEN <<>>
                  ELSE <<Head(s)>> \o SelectSeq(Dedup(Tail(s)), LAMBDA e : e # Head(s))
  IN  BetweenLoop(Dedup(set1), Dedup(set2), max_distance, set1_name, set2_name, 1, 1)

check_barcodes_between_sets(set1, set2, max_distance, set1_name, set2_name) ==
  BetweenLoop(set1, set2, max_distance, set1_name, set2_name, 1, 1)

(***************************************************************************)
(* str.strip(), str.upper(), str.split('\n') on the model's characters.    *)
(***************************************************************************)
IsSpace(c) == c \in {" ", "\n", "\t", "\r"}

UpperChar(c) ==
  CASE c = "a" -> "A"
    [] c = "c" -> "C"
    [] c = "g" -> "G"
    [] c = "t" -> "T"
    [] c = "n" -> "N"
    [] OTHER -> c

upper(s) == [i \in 1..Len(s) |-> UpperChar(s[i])]

RECURSIVE lstrip(_)
lstrip(s) == IF s # <<>> /\ IsSpace(Head(s)) THEN lstrip(Tail(s)) ELSE s

RECURSIVE rstrip(_)
rstrip(s) ==
  IF s # <<>> /\ IsSpace(s[Len(s)]) THEN rstrip(SubSeq(s, 1, Len(s) - 1)) ELSE s

strip(s) == rstrip(lstrip(s))

\* s.split('\n'): the pieces between newlines, empty pieces included
RECURSIVE split(_)
split(s) ==
  IF \A i \in 1..Len(s) : s[i] # "\n" THEN <<s>>
  ELSE LET i == CHOOSE k \in 1..Len(s) : s[k] = "\n" /\ \A m \in 1..(k - 1) : s[m] # "\n"
       IN  <<SubSeq(s, 1, i - 1)>> \o split(SubSeq(s, i + 1, Len(s)))

(***************************************************************************)
(* validate_barcodes(barcodes): the two lists returned, and the caller's   *)
(* list as the call leaves it.                                             *)
(***************************************************************************)
ValidBases == {"A", "C", "G", "T"}

RECURSIVE ValidateLoop(_, _, _)
ValidateLoop(barcodes, valid, invalid) ==
  IF barcodes = <<>> THEN [valid |-> valid, invalid |-> invalid]
  ELSE LET bc == Head(barcodes)
           bc_clean == upper(strip(bc))
       IN  IF bc_clean # <<>> /\ \A i \in 1..Len(bc_clean) : bc_clean[i] \in ValidBases
           THEN ValidateLoop(Tail(barcodes), Append(valid, bc_clean), invalid)
           ELSE ValidateLoop(Tail(barcodes), valid, Append(invalid, bc))

\* variant: invalid.append(bc_clean)
validate_barcodes_cleaned(barcodes) ==
  LET r == ValidateLoop(barcodes, <<>>, <<>>)
  IN  [valid |-> r.valid,
       invalid |-> [i \in 1..Len(r.invalid) |-> upper(strip(r.invalid[i]))],
       barcodes |-> barcodes]

validate_barcodes(barcodes) ==
  LET r == ValidateLoop(barcodes, <<>>, <<>>)
  IN  [valid |-> r.valid, invalid |-> r.invalid, barcodes |-> barcodes]

(***************************************************************************)
(* The page.  What a flow shows is the list of its st.warning, st.error,   *)
(* st.success and st.write calls, in order; texts are given without their  *)
(* counts and emoji.                                                       *)
(***************************************************************************)
Msg(kind, text) == [kind |-> kind, text |-> text]

NonBlank(bc) == strip(bc) # <<>>

\* the result table: st.warning, st.dataframe and st.download_button, or st.success
ShowClashes(clashes, found, none) ==
  IF clashes # <<>>
  THEN <<Msg("warning", found), Msg("dataframe", "clashes"),
         Msg("download_button", "Download clashes as CSV")>>
  ELSE <<Msg("success", none)>>

\* tab1: [bc.strip() for bc in barcode_input.split('\n') if bc.strip()]
SingleSetBarcodes(barcode_input) ==
  LET kept == SelectSeq(split(barcode_input), NonBlank)
  IN  [i \in 1..Len(kept) |-> strip(kept[i])]

\* tab1, button "Check for Clashes"
tab1(barcode_input, max_mismatch, order) ==
  IF strip(barcode_input) # <<>>
  THEN LET barcodes == SingleSetBarcodes(barcode_input)
           v == validate_barcodes(barcodes)
           r == check_barcodes_within_set(v.valid, max_mismatch, order)
           skipped == IF v.invalid # <<>>
                      THEN <<Msg("warning", "Invalid barcodes (skipped)")>> ELSE <<>>
       IN  IF v.valid # <<>>
           THEN [messages |-> skipped \o <<Msg("write", "Total unique barcodes")>>
                                \o ShowClashes(r.clashes, "Found potential clashes",
                                               "No clashes found within this barcode set!"),
                 valid_barcodes |-> v.valid, invalid_barcodes |-> v.invalid,
                 clashes |-> r.clashes, unique_barcodes |-> r.barcode_list]
           ELSE [messages |-> skipped \o <<Msg("error", "No valid barcodes to check")>>,
                 valid_barcodes |-> v.valid, invalid_barcodes |-> v.invalid,
                 clashes |-> <<>>, unique_barcodes |-> <<>>]
  ELSE [messages |-> <<Msg("warning", "Please enter at least one barcode")>>,
        valid_barcodes |-> <<>>, invalid_barcodes |-> <<>>,
        clashes |-> <<>>, unique_barcodes |-> <<>>]

\* tab2: [bc.strip().upper() for bc in set1_input.split('\n') if bc.strip()]
MultiSetBarcodes(set_input) ==
  LET kept == SelectSeq(split(set_input), NonBlank)
  IN  [i \in 1..Len(kept) |-> upper(strip(kept[i]))]

\* tab2, button "Compare Sets"
tab2(set1_input, set1_name, set2_input, set2_name, max_mismatch) ==
  LET v1 == validate_barcodes(MultiSetBarcodes(set1_input))
      v2 == validate_barcodes(MultiSetBarcodes(set2_input))
      w1 == IF v1.invalid # <<>> THEN <<Msg("warning", "Invalid barcodes in Set 1")>> ELSE <<>>
      w2 == IF v2.invalid # <<>> THEN <<Msg("warning", "Invalid barcodes in Set 2")>> ELSE <<>>
      clashes == check_barcodes_between_sets(v1.valid, v2.valid, max_mismatch,
                                             set1_name, set2_name)
  IN  IF v1.valid # <<>> /\ v2.valid # <<>>
      THEN [messages |-> w1 \o w2
                           \o <<Msg("write", "Set 1 unique barcodes"),
                                Msg("write", "Set 2 unique barcodes")>>
                           \o ShowClashes(clashes, "Found potential clashes between sets",
                                          "No clashes found between these barcode sets!"),
            set1_valid |-> v1.valid, set2_valid |-> v2.valid, clashes |-> clashes]
      ELSE [messages |-> w1 \o w2
                           \o <<Msg("error", "Please provide valid barcodes for both sets")>>,
            set1_valid |-> v1.valid, set2_valid |-> v2.valid, clashes |-> <<>>]

\* iterating an uploaded file: its lines, each with its line end
FileLines(content) ==
  LET p == split(content)
      n == Len(p)
  IN  [i \in 1..(IF p[n] = <<>> THEN n - 1 ELSE n) |->
         IF i < n THEN Append(p[i], "\n") ELSE p[i]]

\* tab3, a .txt file: [line.decode('utf-8').strip() for line in uploaded_file if line.strip()]
TxtBarcodes(content) ==
  LET kept == SelectSeq(FileLines(content), NonBlank)
  IN  [i \in 1..Len(kept) |-> strip(kept[i])]

\* tab3, a .csv file: pd.read_csv(f).iloc[:, 0].astype(str).tolist() on a file
\* without commas or quotes: blank lines are skipped, the first line left is
\* the header, every other line is a cell, and the cell "NA" reads as nan
CsvRows(content) == SelectSeq(split(content), NonBlank)

CsvBarcodes(content) ==
  LET cells == Tail(CsvRows(content))
  IN  [i \in 1..Len(cells) |->
         IF cells[i] = <<"N", "A">> THEN <<"n", "a", "n">> ELSE cells[i]]

\* whether reading the file raises: bytes that are no UTF-8 (readable = FALSE),
\* or a .csv file with no line to take the header from
ReadRaises(ext, content, readable) ==
  \/ ~readable
  \/ ext = "csv" /\ CsvRows(content) = <<>>

UploadedBarcodes(ext, content) ==
  IF ext = "txt" THEN TxtBarcodes(content) ELSE CsvBarcodes(content)

\* tab3 with a file uploaded; pressed: button "Analyze Uploaded Barcodes"
tab3(ext, content, readable, pressed, max_mismatch, order) ==
  IF ReadRaises(ext, content, readable)
  THEN [messages |-> <<Msg("error", "Error reading file")>>,
        barcodes |-> <<>>, valid_barcodes |-> <<>>, invalid_barcodes |-> <<>>,
        clashes |-> <<>>, unique_barcodes |-> <<>>]
  ELSE LET barcodes == UploadedBarcodes(ext, content)
           v == validate_barcodes(barcodes)
           r == check_barcodes_within_set(v.valid, max_mismatch, order)
           counts == <<Msg("write", "Total barcodes read"), Msg("write", "Valid barcodes")>>
                       \o (IF v.invalid # <<>>
                           THEN <<Msg("warning", "Invalid barcodes")>> ELSE <<>>)
       IN  IF pressed
           THEN [messages |-> counts \o <<Msg("write", "Unique barcodes")>>
                                \o ShowClashes(r.clashes, "Found potential clashes",
                                               "No clashes found!"),
                 barcodes |-> barcodes, valid_barcodes |-> v.valid,
                 invalid_barcodes |-> v.invalid,
                 clashes |-> r.clashes, unique_barcodes |-> r.barcode_list]
           ELSE [messages |-> counts,
                 barcodes |-> barcodes, valid_barcodes |-> v.valid,
                 invalid_barcodes |-> v.invalid,
                 clashes |-> <<>>, unique_barcodes |-> <<>>]

(***************************************************************************)
(* The state: pc names the call that has just returned ("idle" between     *)
(* calls), inp holds its arguments and out what it returned.               *)
(***************************************************************************)
Init ==
  /\ pc = "idle"
  /\ inp = <<>>
  /\ out = <<>>

CallHamming ==
  /\ pc = "idle"
  /\ \E s1 \in RawStrings, s2 \in RawStrings :
       /\ inp' = [s1 |-> s1, s2 |-> s2]
       /\ out' = hamming_distance(s1, s2)
  /\ pc' = "hamming"

CallWithin ==
  /\ pc = "idle"
  /\ \E barcodes \in SeqsUpTo(Barcodes, MaxList), max_distance \in Thresholds :
       \E order \in ListsOfSet(Range(barcodes)) :
         /\ inp' = [barcodes |-> barcodes, max_distance |-> max_distance]
         /\ out' = check_barcodes_within_set(barcodes, max_distance, order)
  /\ pc' = "within"

CallBetween ==
  /\ pc = "idle"
  /\ \E set1 \in SeqsUpTo(Barcodes, MaxSet), set2 \in SeqsUpTo(Barcodes, MaxSet),
        max_distance \in Thresholds, names \in NamePairs :
       /\ inp' = [set1 |-> set1, set2 |-> set2, max_distance |-> max_distance,
                  set1_name |-> names[1], set2_name |-> names[2]]
       /\ out' = check_barcodes_between_sets(set1, set2, max_distance, names[1], names[2])
  /\ pc' = "between"

CallValidate ==
  /\ pc = "idle"
  /\ \E barcodes \in SeqsUpTo(RawStrings, MaxRaw) :
       /\ inp' = [barcodes |-> barcodes]
       /\ out' = validate_barcodes(barcodes)
  /\ pc' = "validate"

Tab1 ==
  /\ pc = "idle"
  /\ \E barcode_input \in Texts(MaxText), max_mismatch \in Thresholds :
       \E order \in
            ListsOfSet(Range(validate_barcodes(SingleSetBarcodes(barcode_input)).valid)) :
         /\ inp' = [barcode_input |-> barcode_input, max_mismatch |-> max_mismatch]
         /\ out' = tab1(barcode_input, max_mismatch, order)
  /\ pc' = "tab1"

Tab2 ==
  /\ pc = "idle"
  /\ \E set1_input \in Texts(MaxSetText), set2_input \in Texts(MaxSetText),
        names \in NamePairs, max_mismatch \in Thresholds :
       /\ inp' = [set1_input |-> set1_input, set2_input |-> set2_input,
                  set1_name |-> names[1], set2_name |-> names[2],
                  max_mismatch |-> max_mismatch]
       /\ out' = tab2(set1_input, names[1], set2_input, names[2], max_mismatch)
  /\ pc' = "tab2"

Tab3 ==
  /\ pc = "idle"
  /\ \E ext \in {"txt", "csv"}, content \in Texts(MaxText), readable \in BOOLEAN,
        pressed \in BOOLEAN, max_mismatch \in Thresholds :
       \E order \in
            ListsOfSet(IF ReadRaises(ext, content, readable) THEN {}
                       ELSE Range(validate_barcodes(UploadedBarcodes(ext, content)).valid)) :
         /\ inp' = [ext |-> ext, content |-> content, readable |-> readable,
                    pressed |-> pressed, max_mismatch |-> max_mismatch]
         /\ out' = tab3(ext, content, readable, pressed, max_mismatch, order)
  /\ pc' = "tab3"

\* the call's result is used and dropped: nothing is kept between calls
Return ==
  /\ pc # "idle"
  /\ pc' = "idle"
  /\ inp' = <<>>
  /\ out' = <<>>

Next ==
  \/ CallHamming
  \/ CallWithin
  \/ CallBetween
  \/ CallValidate
  \/ Tab1
  \/ Tab2
  \/ Tab3
  \/ Return

Spec == Init /\ [][Next]_vars

\* the same machine restricted to the calls a property is about
NextHamming == CallHamming \/ Return

NextWithin == CallWithin \/ Return

NextBetween == CallBetween \/ Return

NextDetect == CallWithin \/ CallBetween \/ Return

NextCore == CallHamming \/ CallWithin \/ CallBetween \/ Return

NextValidate == CallValidate \/ Return

SpecValidate == Init /\ [][NextValidate]_vars

NextSingle == CallWithin \/ Tab1 \/ Return

SpecSingle == Init /\ [][NextSingle]_vars

NextUI == Tab1 \/ Tab2 \/ Tab3 \/ Return

SpecUI == Init /\ [][NextUI]_vars

SpecHamming == Init /\ [][NextHamming]_vars

SpecWithin == Init /\ [][NextWithin]_vars

SpecBetween == Init /\ [][NextBetween]_vars

SpecDetect == Init /\ [][NextDetect]_vars

SpecCore == Init /\ [][NextCore]_vars

(***************************************************************************)
(* What the claims speak of, stated apart from the code above.             *)
(***************************************************************************)
Differing(x, y) == {i \in 1..Len(x) : x[i] # y[i]}

\* x and y clash at threshold t
Clashing(x, y, t) == Len(x) = Len(y) /\ Cardinality(Differing(x, y)) <= t

WithinKeys == {"Barcode 1", "Barcode 2", "Hamming Distance"}

\* the unordered pair of a within-set record
PairOf(r) == {r["Barcode 1"], r["Barcode 2"]}

\* a list of within-set records as a set of (unordered pair, distance)
ClashSet(cl) == {<<PairOf(cl[k]), cl[k]["Hamming Distance"]>> : k \in 1..Len(cl)}

Count(s, e) == Cardinality({k \in 1..Len(s) : s[k] = e})

\* position pairs (i, j) of set1 x set2 that clash at threshold t
ClashingPositions(set1, set2, t) ==
  {p \in (1..Len(set1)) \X (1..Len(set2)) : Clashing(set1[p[1]], set2[p[2]], t)}

\* row-major order of position pairs
RowMajorLeq(p, q) == p[1] < q[1] \/ (p[1] = q[1] /\ p[2] <= q[2])

\* C1: check_barcodes_within_set returns each distinct input barcode exactly
\* once, and its records are exactly the unordered pairs of distinct unique
\* barcodes at Hamming distance <= threshold, each in exactly one record that
\* carries the number of differing positions; 0 or 1 distinct barcode gives
\* no record.
C1_WithinExactPairs ==
  pc = "within" =>
    LET U  == Range(inp.barcodes)
        t  == inp.max_distance
        cl == out.clashes
        bl == out.barcode_list
    IN  /\ Range(bl) = U
        /\ Len(bl) = Cardinality(U)
        /\ \A k \in 1..Len(cl) :
             /\ DOMAIN cl[k] = WithinKeys
             /\ cl[k]["Barcode 1"] \in U
             /\ cl[k]["Barcode 2"] \in U
             /\ cl[k]["Barcode 1"] # cl[k]["Barcode 2"]
             /\ Clashing(cl[k]["Barcode 1"], cl[k]["Barcode 2"], t)
             /\ cl[k]["Hamming Distance"]
                  = PyInt(Cardinality(Differing(cl[k]["Barcode 1"], cl[k]["Barcode 2"])))
        /\ \A x, y \in U :
             (x # y /\ Clashing(x, y, t))
               => Cardinality({k \in 1..Len(cl) : PairOf(cl[k]) = {x, y}}) = 1
        /\ (Cardinality(U) <= 1 => cl = <<>>)

\* a list with a repeated barcode and a third one that clashes with it
C1_Witness ==
  /\ pc = "within"
  /\ Len(inp.barcodes) = 3
  /\ Cardinality(Range(inp.barcodes)) = 2
  /\ Len(out.clashes) = 1

\* C2: check_barcodes_between_sets returns exactly one record per position
\* pair (i, j) with distance(A[i], B[j]) <= threshold, in row-major order, so
\* a barcode repeated k times in A and m times in B gives k*m records; under
\* two different set names the record's first barcode is A[i] and its second
\* B[j].
C2_BetweenPerPosition ==
  pc = "between" =>
    LET P == ClashingPositions(inp.set1, inp.set2, inp.max_distance)
        rank(p) == Cardinality({q \in P : RowMajorLeq(q, p)})
    IN  /\ Len(out) = Cardinality(P)
        /\ \A p \in P :
             /\ out[rank(p)]["Hamming Distance"]
                  = PyInt(Cardinality(Differing(inp.set1[p[1]], inp.set2[p[2]])))
             /\ inp.set1_name # inp.set2_name =>
                  /\ out[rank(p)][BarcodeKey(inp.set1_name)] = inp.set1[p[1]]
                  /\ out[rank(p)][BarcodeKey(inp.set2_name)] = inp.set2[p[2]]

\* one barcode twice in A and twice in B: four records
C2_Witness ==
  /\ pc = "between"
  /\ inp.set1_name = "Set 1"
  /\ inp.set2_name = "Set 2"
  /\ Len(inp.set1) = 2
  /\ inp.set1[1] = inp.set1[2]
  /\ inp.set2 = inp.set1
  /\ Len(out) = 4

\* C3: for every pair of set names, equal or not, every record of
\* check_barcodes_between_sets has three separate fields: the barcode of set
\* A, the barcode of set B and their distance.
C3_ThreeFields ==
  pc = "between" =>
    \A k \in 1..Len(out) :
      /\ Cardinality(DOMAIN out[k]) = 3
      /\ out[k][BarcodeKey(inp.set1_name)] \in Range(inp.set1)
      /\ out[k][BarcodeKey(inp.set2_name)] \in Range(inp.set2)

\* C6: two barcodes of different lengths have a distance that is <= no
\* threshold, so neither detector emits a record whose two barcodes differ in
\* length, and every record carries a finite integer distance.
C6_NoCrossLength ==
  /\ pc = "hamming" =>
       (Len(inp.s1) # Len(inp.s2) => \A t \in Thresholds : ~Le(out, t))
  /\ pc = "within" =>
       \A k \in 1..Len(out.clashes) :
         /\ Len(out.clashes[k]["Barcode 1"]) = Len(out.clashes[k]["Barcode 2"])
         /\ ~out.clashes[k]["Hamming Distance"].isinf
         /\ out.clashes[k]["Hamming Distance"].n \in Nat
  /\ pc = "between" =>
       /\ Len(out) <= Cardinality({p \in (1..Len(inp.set1)) \X (1..Len(inp.set2)) :
                                     Len(inp.set1[p[1]]) = Len(inp.set2[p[2]])})
       /\ \A k \in 1..Len(out) :
            /\ Len(out[k][BarcodeKey(inp.set1_name)])
                 = Len(out[k][BarcodeKey(inp.set2_name)])
            /\ ~out[k]["Hamming Distance"].isinf
            /\ out[k]["Hamming Distance"].n \in Nat

\* "A" and "AA" checked together at the largest threshold: no record
C6_Witness ==
  /\ pc = "within"
  /\ <<"A">> \in Range(inp.barcodes)
  /\ <<"A", "A">> \in Range(inp.barcodes)
  /\ inp.max_distance = MaxThreshold
  /\ out.clashes = <<>>

C9_HammingSymmetric ==
  pc = "hamming" =>
    /\ out = hamming_distance(inp.s2, inp.s1)
    /\ (inp.s1 = inp.s2 => out = PyInt(0))
    /\ (Len(inp.s1) = Len(inp.s2) => out = PyInt(Cardinality(Differing(inp.s1, inp.s2))))

\* two strings of three characters that differ at one position
C9_Witness ==
  /\ pc = "hamming"
  /\ Len(inp.s1) = 3
  /\ Len(inp.s2) = 3
  /\ out = PyInt(1)

\* C10: the result of check_barcodes_within_set depends only on the set of
\* distinct input barcodes and the threshold: any other input list with the
\* same distinct elements, under any enumeration order of the deduplicated
\* set, gives the same unique barcodes as a set and the same records as a set
\* of (unordered pair, distance).
C10_OrderIndependent ==
  pc = "within" =>
    LET Same(r2) == /\ Range(r2.barcode_list) = Range(out.barcode_list)
                    /\ Len(r2.barcode_list) = Len(out.barcode_list)
                    /\ ClashSet(r2.clashes) = ClashSet(out.clashes)
                    /\ Len(r2.clashes) = Len(out.clashes)
    IN  \* another list of the same distinct elements, enumerated as this one was
        /\ \A b2 \in SeqsUpTo(Range(inp.barcodes), MaxList) :
             Range(b2) = Range(inp.barcodes) =>
               Same(check_barcodes_within_set(b2, inp.max_distance, out.barcode_list))
        \* this list, its distinct elements enumerated in another order
        /\ \A l2 \in ListsOfSet(Range(inp.barcodes)) :
             Same(check_barcodes_within_set(inp.barcodes, inp.max_distance, l2))

\* three distinct barcodes, two records, enumerated in other than sorted order
C10_Witness ==
  /\ pc = "within"
  /\ Cardinality(Range(inp.barcodes)) = 3
  /\ out.barcode_list # inp.barcodes
  /\ Len(out.clashes) = 2

\* the blank characters, and s without its leading and trailing blanks
Blank(c) == c \in {" ", "\n", "\t", "\r"}

Trimmed(s) ==
  LET I == {i \in 1..Len(s) : ~Blank(s[i])}
  IN  IF I = {} THEN <<>>
      ELSE SubSeq(s, CHOOSE i \in I : \A k \in I : i <= k,
                     CHOOSE j \in I : \A k \in I : k <= j)

Uppercased(s) ==
  [i \in 1..Len(s) |->
     IF s[i] = "a" THEN "A" ELSE IF s[i] = "c" THEN "C" ELSE IF s[i] = "g" THEN "G"
     ELSE IF s[i] = "t" THEN "T" ELSE IF s[i] = "n" THEN "N" ELSE s[i]]

Normal(s) == Uppercased(Trimmed(s))

\* s is a valid barcode once trimmed and uppercased
IsDna(s) == Normal(s) # <<>> /\ Range(Normal(s)) \subseteq {"A", "C", "G", "T"}

\* C4: validate_barcodes partitions its input in order: an element goes to
\* valid, trimmed and uppercased, iff that form is non-empty and made of A, C,
\* G, T only, and otherwise to invalid as it was entered; the order is kept
\* inside each output and the input list is left unchanged.
C4_ValidatePartition ==
  pc = "validate" =>
    LET good == SelectSeq(inp.barcodes, IsDna)
        bad  == SelectSeq(inp.barcodes, LAMBDA b : ~IsDna(b))
    IN  /\ Len(out.valid) + Len(out.invalid) = Len(inp.barcodes)
        /\ out.valid = [i \in 1..Len(good) |-> Normal(good[i])]
        /\ out.invalid = bad
        /\ out.barcodes = inp.barcodes

\* a padded lowercase barcode is accepted in normal form, a padded non-barcode
\* is rejected as entered
C4_Witness ==
  /\ pc = "validate"
  /\ Len(inp.barcodes) = 2
  /\ out.valid = <<<<"C">>>>
  /\ inp.barcodes[2] = <<" ", "c", " ">>
  /\ out.invalid = <<<<" ", "N">>>>

Shown(kind, text) == \E k \in 1..Len(out.messages) : out.messages[k] = Msg(kind, text)

AnySuccess == \E k \in 1..Len(out.messages) : out.messages[k].kind = "success"

\* C5: when validation leaves no valid barcode (in the multi-set flow, none
\* in at least one set), each of the three flows ends with a 'no valid
\* barcodes' error or warning and never with the success 'no clashes found'.
C5_NoValidReported ==
  /\ (pc = "tab1" /\ strip(inp.barcode_input) # <<>> /\ out.valid_barcodes = <<>>) =>
       (Shown("error", "No valid barcodes to check") /\ ~AnySuccess)
  /\ (pc = "tab2" /\ (out.set1_valid = <<>> \/ out.set2_valid = <<>>)) =>
       (Shown("error", "Please provide valid barcodes for both sets") /\ ~AnySuccess)
  /\ (pc = "tab3" /\ inp.pressed /\ ~ReadRaises(inp.ext, inp.content, inp.readable)
        /\ out.valid_barcodes = <<>>) =>
       ((\E k \in 1..Len(out.messages) :
           out.messages[k].kind \in {"error", "warning"}
             /\ out.messages[k].text # "Invalid barcodes")
        /\ ~AnySuccess)

\* the lines of a pasted text that hold a barcode
BarcodeLines(text) == SelectSeq(split(text), IsDna)

\* C8: check_barcodes_within_set never emits a record of distance 0 or of two
\* equal barcodes, so at threshold 0 it returns no record; and in the
\* single-set flow lines that differ only in letter case or surrounding
\* whitespace count as one unique barcode.
C8_DuplicatesNeverClash ==
  /\ pc = "within" =>
       /\ \A k \in 1..Len(out.clashes) :
            /\ out.clashes[k]["Hamming Distance"] # PyInt(0)
            /\ out.clashes[k]["Barcode 1"] # out.clashes[k]["Barcode 2"]
       /\ (inp.max_distance = 0 => out.clashes = <<>>)
  /\ pc = "tab1" =>
       /\ \A k \in 1..Len(out.clashes) :
            /\ out.clashes[k]["Hamming Distance"] # PyInt(0)
            /\ out.clashes[k]["Barcode 1"] # out.clashes[k]["Barcode 2"]
       /\ (inp.max_mismatch = 0 => out.clashes = <<>>)
       /\ Len(out.unique_barcodes)
            = Cardinality({Normal(l) : l \in Range(BarcodeLines(inp.barcode_input))})
       /\ \A l1, l2 \in Range(BarcodeLines(inp.barcode_input)) :
            Normal(l1) = Normal(l2) => Count(out.unique_barcodes, Normal(l1)) = 1

\* "A", " a" and "C" pasted on three lines: two unique barcodes, one clash
C8_Witness ==
  /\ pc = "tab1"
  /\ Len(BarcodeLines(inp.barcode_input)) = 3
  /\ Cardinality(Range(BarcodeLines(inp.barcode_input))) = 3
  /\ Len(out.unique_barcodes) = 2
  /\ Len(out.clashes) = 1

====
